---- MODULE Spec2Model ----
(***************************************************************************)
(* Model of the packaging manifest setup.py of tadtool.                    *)
(*                                                                         *)
(* The manifest is one setup() call.  Its keyword arguments are constants, *)
(* except `packages`, which find_packages(exclude=["test"]) computes from  *)
(* the source tree.  Running the manifest with an install command copies   *)
(* the declared scripts into the environment and processes the declared    *)
(* requirements.                                                           *)
(*                                                                         *)
(* Strings that the manifest's consumers take apart (paths, package names, *)
(* glob patterns, requirement specifiers, the version, the download URL)   *)
(* are sequences of one-character strings, so that basename, fnmatchcase   *)
(* and requirement parsing are computed and not assumed.  Strings that are *)
(* only carried along (author, url, ...) are TLA+ strings.                 *)
(***************************************************************************)
EXTENDS Naturals, Sequences, FiniteSets

VARIABLES tree, index, dist, commands, installed, status

vars == <<tree, index, dist, commands, installed, status>>

-----------------------------------------------------------------------------
(* Bounds of the model.                                                    *)

\* how many of the candidate package directories a source tree may contain
NumCandidates == 6

-----------------------------------------------------------------------------
(* The keyword arguments of the setup() call.                              *)

name == <<"t","a","d","t","o","o","l">>

\* the version of the following release
version_next == <<"0",".","6","2">>

version == <<"0",".","6","1">>

description == "Assistant to find cutoffs in TAD calling algorithms."

\* an exclude pattern that also covers names that begin with test
exclude_glob == << <<"t","e","s","t","*">> >>

\* the exclude argument of find_packages
exclude == << <<"t","e","s","t">> >>

\* a requirement list that pins a version
install_requires_pinned ==
    << <<"n","u","m","p","y",">","=","1",".","9">>,
       <<"m","a","t","p","l","o","t","l","i","b">>,
       <<"p","r","o","g","r","e","s","s","b","a","r","2">> >>

install_requires ==
    << <<"n","u","m","p","y">>,
       <<"m","a","t","p","l","o","t","l","i","b">>,
       <<"p","r","o","g","r","e","s","s","b","a","r","2">> >>

author == "Vaquerizas lab"

author_email == "kai.kruse@mpi-muenster.mpg.de"

url == "https://github.com/vaquerizaslab/tadtool"

\* a download link left at the previous release
download_url_stale ==
    <<"h","t","t","p","s",":","/","/","g","i","t","h","u","b",".","c","o","m",
      "/","v","a","q","u","e","r","i","z","a","s","l","a","b",
      "/","t","a","d","t","o","o","l",
      "/","t","a","r","b","a","l","l","/","0",".","6","0">>

download_url ==
    <<"h","t","t","p","s",":","/","/","g","i","t","h","u","b",".","c","o","m",
      "/","v","a","q","u","e","r","i","z","a","s","l","a","b",
      "/","t","a","d","t","o","o","l",
      "/","t","a","r","b","a","l","l","/","0",".","6","1">>

\* a manifest without keyword tags
keywords_none == <<>>

keywords == <<"bioinformatics", "hi-c", "genomics", "tad">>

classifiers == <<>>

\* a manifest that declares a second script
scripts_two ==
    << <<"b","i","n","/","t","a","d","t","o","o","l">>,
       <<"b","i","n","/","t","a","d","p","l","o","t">> >>

scripts == << <<"b","i","n","/","t","a","d","t","o","o","l">> >>

-----------------------------------------------------------------------------
(* String helpers of the library calls the manifest makes.                 *)

\* str.rfind(ch) + 1: the 1-based index of the last ch in s, 0 if there is none
LastIndexOf(s, ch) ==
    LET I == {i \in 1..Len(s) : s[i] = ch}
    IN  IF I = {} THEN 0 ELSE CHOOSE i \in I : \A j \in I : j <= i

\* a script installed under its whole relative path
BasenameWhole(path) == path

\* os.path.basename, which names the installed copy of a script
Basename(path) == SubSeq(path, LastIndexOf(path, "/") + 1, Len(path))

\* fnmatchcase(s, p) for patterns made of literals, "*" and "?"
RECURSIVE FnMatch(_, _)
FnMatch(s, p) ==
    IF p = <<>> THEN s = <<>>
    ELSE IF Head(p) = "*"
         THEN FnMatch(s, Tail(p)) \/ (s # <<>> /\ FnMatch(Tail(s), p))
         ELSE /\ s # <<>>
              /\ (Head(p) = "?" \/ Head(p) = Head(s))
              /\ FnMatch(Tail(s), Tail(p))

\* the patterns the package finder excludes whatever the caller passes
ALWAYS_EXCLUDE ==
    << <<"e","z","_","s","e","t","u","p">>,
       <<"*","_","_","p","y","c","a","c","h","e","_","_">> >>

\* _build_filter(*patterns): true of a name that matches at least one pattern
BuildFilter(patterns, pkg) ==
    \E i \in 1..Len(patterns) : FnMatch(pkg, patterns[i])

\* find_packages(exclude=excl) over the package directories of the tree
\* (include defaults to "*"); the order of the list is the directory walk's,
\* so the result is kept as a set
find_packages(where, excl) ==
    {pkg \in where : /\ BuildFilter(<< <<"*">> >>, pkg)
                     /\ ~BuildFilter(ALWAYS_EXCLUDE \o excl, pkg)}

\* the characters that end the project name in a requirement string
SpecChars == {"<", ">", "=", "!", "~", ";", "[", " ", "@", "("}

\* the project name a requirement string asks for
RECURSIVE ReqName(_)
ReqName(r) ==
    IF r = <<>> \/ Head(r) \in SpecChars THEN <<>>
    ELSE <<Head(r)>> \o ReqName(Tail(r))

\* the projects the requirement list asks for
Required(reqs) == {ReqName(reqs[i]) : i \in 1..Len(reqs)}

\* a resolution that is content with one requirement
ResolvableAny(reqs, avail) == \E i \in 1..Len(reqs) : ReqName(reqs[i]) \in avail

\* every requirement names a project that can be had
Resolvable(reqs, avail) == \A i \in 1..Len(reqs) : ReqName(reqs[i]) \in avail

\* the command names the scripts are installed under
ScriptNames(scr) == {Basename(scr[i]) : i \in 1..Len(scr)}

-----------------------------------------------------------------------------
(* The inputs: source trees and package indexes.                           *)

\* package directories a source tree may hold, parents before children
Candidates ==
    << <<"t","a","d","t","o","o","l">>,
       <<"t","e","s","t">>,
       <<"t","e","s","t","s">>,
       <<"t","e","s","t",".","x">>,
       <<"t","a","d","t","o","o","l",".","t","e","s","t">>,
       <<"e","z","_","s","e","t","u","p">>,
       <<"m","y","_","_","p","y","c","a","c","h","e","_","_">> >>

Universe == {Candidates[i] : i \in 1..NumCandidates}

\* a subpackage is found only below a directory that is itself a package
WellFormedTree(t) ==
    \A pkg \in t :
        LastIndexOf(pkg, ".") > 0
            => SubSeq(pkg, 1, LastIndexOf(pkg, ".") - 1) \in t

Trees == {t \in SUBSET Universe : WellFormedTree(t)}

\* the value of dist before the manifest has been evaluated
NoDist == [k \in {} |-> <<>>]

\* the distribution the setup() call describes
Distribution(where) ==
    [name             |-> name,
     version          |-> version,
     description      |-> description,
     packages         |-> find_packages(where, exclude),
     install_requires |-> install_requires,
     author           |-> author,
     author_email     |-> author_email,
     url              |-> url,
     download_url     |-> download_url,
     keywords         |-> keywords,
     classifiers      |-> classifiers,
     scripts          |-> scripts]

Evaluated == DOMAIN dist # {}

-----------------------------------------------------------------------------
(* The state machine.                                                      *)

Init ==
    /\ tree \in Trees
    /\ index \in SUBSET Required(install_requires)
    /\ dist = NoDist
    /\ commands = {}
    /\ installed = {}
    /\ status = "none"

\* python setup.py install: the distribution and its scripts are installed
\* first, the requirements are processed afterwards
SetupInstall ==
    LET d == Distribution(tree) IN
    /\ dist' = d
    /\ commands' = commands \cup ScriptNames(d.scripts)
    /\ \/ /\ Resolvable(d.install_requires, index \cup installed)
          /\ installed' = installed \cup {d.name}
                           \cup (Required(d.install_requires) \cap index)
          /\ status' = "ok"
       \/ /\ ~Resolvable(d.install_requires, index \cup installed)
          /\ \E got \in SUBSET (Required(d.install_requires) \cap index) :
                installed' = installed \cup {d.name} \cup got
          /\ status' = "error"
    /\ UNCHANGED <<tree, index>>

\* pip install .: the requirements are resolved before anything is installed
PipInstall ==
    LET d == Distribution(tree) IN
    /\ dist' = d
    /\ \/ /\ Resolvable(d.install_requires, index \cup installed)
          /\ installed' = installed \cup {d.name}
                           \cup (Required(d.install_requires) \cap index)
          /\ commands' = commands \cup ScriptNames(d.scripts)
          /\ status' = "ok"
       \/ /\ ~Resolvable(d.install_requires, index \cup installed)
          /\ UNCHANGED <<installed, commands>>
          /\ status' = "error"
    /\ UNCHANGED <<tree, index>>

\* pip uninstall tadtool: the files of the installed distribution are removed
Uninstall ==
    /\ Evaluated
    /\ dist.name \in installed
    /\ installed' = installed \ {dist.name}
    /\ commands' = commands \ ScriptNames(dist.scripts)
    /\ status' = "none"
    /\ UNCHANGED <<tree, index, dist>>

Next == SetupInstall \/ PipInstall \/ Uninstall

Spec == Init /\ [][Next]_vars

-----------------------------------------------------------------------------
(* The names the claims speak of, written out.                             *)

Tadtool == <<"t","a","d","t","o","o","l">>

TestPkg == <<"t","e","s","t">>

Numpy == <<"n","u","m","p","y">>

Matplotlib == <<"m","a","t","p","l","o","t","l","i","b">>

Progressbar2 == <<"p","r","o","g","r","e","s","s","b","a","r","2">>

Deps == {Numpy, Matplotlib, Progressbar2}

-----------------------------------------------------------------------------
(* C1: starting with no tadtool command installed, a successful install    *)
(* leaves a command named tadtool (the basename of bin/tadtool) installed, *)
(* and an installed tadtool command stays installed over every step that   *)
(* is not an uninstall.                                                    *)
C1_CommandAvailable ==
    /\ [](status = "ok" => Tadtool \in commands)
    /\ [][(Tadtool \in commands /\ ~Uninstall) => Tadtool \in commands']_vars

C1_Witness == status = "ok" /\ Tadtool \in commands /\ dist.name \in installed

(* C2: the manifest declares exactly one script, bin/tadtool, and no entry *)
(* points.                                                                 *)
C2_OneScript ==
    Evaluated =>
        /\ Len(dist.scripts) = 1
        /\ dist.scripts[1] = <<"b","i","n","/","t","a","d","t","o","o","l">>
        /\ "entry_points" \notin DOMAIN dist

C2_Witness == Evaluated /\ dist.scripts # <<>> /\ commands # {}

(* C3: install_requires is numpy, matplotlib and progressbar2, each once,  *)
(* none with a version constraint, and nothing else.                       *)
C3_ThreeRequirements ==
    Evaluated =>
        LET reqs == dist.install_requires IN
        /\ Len(reqs) = 3
        /\ {reqs[i] : i \in 1..Len(reqs)} = Deps
        /\ \A i \in 1..Len(reqs) : ReqName(reqs[i]) = reqs[i]

C3_Witness == Evaluated /\ Len(dist.install_requires) > 0 /\ Numpy \in installed

C5_NameAndVersion ==
    Evaluated =>
        /\ dist.name = Tadtool
        /\ dist.version = <<"0",".","6","1">>

C5_Witness == Evaluated /\ Len(dist.version) > 0 /\ dist.name \in installed

(* C6: author, author_email, url and download_url are non-empty and the    *)
(* keywords are bioinformatics, hi-c, genomics and tad.                    *)
C6_Metadata ==
    Evaluated =>
        /\ dist.author # ""
        /\ dist.author_email # ""
        /\ dist.url # ""
        /\ dist.download_url # <<>>
        /\ dist.keywords # <<>>
        /\ dist.keywords = <<"bioinformatics", "hi-c", "genomics", "tad">>

C6_Witness == Evaluated /\ Len(dist.keywords) = 4 /\ status # "none"

(* C8: the part of download_url after its last "/" is the version, and the *)
(* path segment before it is tarball.                                      *)
C8_DownloadUrlVersion ==
    Evaluated =>
        LET u == dist.download_url
            k == LastIndexOf(u, "/")
        IN  /\ k >= 8
            /\ SubSeq(u, k - 7, k) = <<"t","a","r","b","a","l","l","/">>
            /\ SubSeq(u, k + 1, Len(u)) = dist.version

C8_Witness == Evaluated /\ LastIndexOf(dist.download_url, "/") > 0

(* C9: packages is what the finder discovers in the tree without an        *)
(* exclude argument, less the package named exactly test: test is never    *)
(* among the packages, and every other discovered package (tests, test.x,  *)
(* tadtool.test, ...) is.                                                  *)
C9_ExcludesExactlyTest ==
    Evaluated =>
        /\ dist.packages = find_packages(tree, <<>>) \ {TestPkg}
        /\ TestPkg \notin dist.packages
        /\ \A pkg \in find_packages(tree, <<>>) :
               pkg # TestPkg => pkg \in dist.packages

C9_Witness ==
    /\ Evaluated
    /\ TestPkg \in tree
    /\ <<"t","e","s","t",".","x">> \in dist.packages
    /\ <<"t","e","s","t","s">> \in dist.packages

====
